---- MODULE Spec2Model ----
(***************************************************************************)
(* rawtext2ics: the ICS text-transformation engine                         *)
(* (src/services/geminiService.ts, generateIcsFromText) as a state machine.*)
(*                                                                         *)
(* Text is a sequence of atoms.  An atom is one character ("0", ":", " ",  *)
(* the carriage return CR, the line feed LF) or one keyword the engine     *)
(* only ever treats as a unit ("DTSTART", "BEGIN:VEVENT", ...): the real   *)
(* text is the concatenation of the atoms' spellings.                      *)
(* A Date is its getTime() in whole seconds (every Date of the engine is   *)
(* built from integer calendar fields, its milliseconds are 0), in a       *)
(* local time zone without daylight saving ("floating" wall-clock time).   *)
(*                                                                         *)
(* Spec is one call of the engine; TwiceSpec makes the same call twice;    *)
(* CleanSpec applies the cleaning step to its own result; AppSpec is the   *)
(* App (src/App.tsx) around the engine: the form, the Process File button, *)
(* the awaited promise and "Process another file".                         *)
(***************************************************************************)
EXTENDS Integers, Sequences, FiniteSets, TLC

VARIABLES
    inputText,    \* the text handed to generateIcsFromText
    options,      \* ProcessOptions: startDate, isWeekly, weeklyCount
    pc,           \* "idle" | "pending" (timer armed) | "resolved" | "rejected"
    eventBlocks,  \* the extracted VEVENT blocks of the call
    timeOffset,   \* the shift of the call, a Num
    repeatCount,  \* the occurrence count of the call
    finalEvents,  \* the expanded blocks of the call
    timer,        \* the value the armed 500 ms timer will resolve with
    result,       \* what the promise resolved to: icsContent, filename, summary
    errorMsg,     \* what the promise rejects with
    second,       \* a second call with the same arguments: pc, timer, result
    cleanings,    \* the results of cleaning inputText again and again
    form,         \* App: inputText, startDate, isWeekly, weeklyCount
    status,       \* App: "IDLE" | "PROCESSING" | "SUCCESS" | "ERROR"
    appResult,    \* App: result, NoResult for null
    appErrorMsg,  \* App: errorMsg, "" for null
    calls         \* App: the promises handleGenerate is awaiting

appVars == <<form, status, appResult, appErrorMsg, calls>>

vars == <<inputText, options, pc, eventBlocks, timeOffset, repeatCount,
          finalEvents, timer, result, errorMsg, second, cleanings, appVars>>

-----------------------------------------------------------------------------
(* Characters and lines *)

CR == "CR"
LF == "LF"
SP == " "

Digits == <<"0", "1", "2", "3", "4", "5", "6", "7", "8", "9">>
DigitSet == {Digits[i] : i \in 1..Len(Digits)}
Upper == <<"A", "B", "C", "D", "E", "F", "G", "H", "I", "J", "K", "L", "M",
           "N", "O", "P", "Q", "R", "S", "T", "U", "V", "W", "X", "Y", "Z">>
Lower == <<"a", "b", "c", "d", "e", "f", "g", "h", "i", "j", "k", "l", "m",
           "n", "o", "p", "q", "r", "s", "t", "u", "v", "w", "x", "y", "z">>

\* JS LineTerminator among the atoms: what "." does not match and what "^"
\* and "$" anchor on under the m flag.
IsLineTerminator(a) == a \in {CR, LF}

\* JS WhiteSpace or LineTerminator among the atoms: what trim() strips.
IsWhiteSpace(a) == a \in {CR, LF, SP}

\* "^" under the m flag: position i starts the text or follows a terminator.
LineStartAt(s, i) == i = 1 \/ IsLineTerminator(s[i - 1])

\* The first index >= i that holds a line terminator, Len(s)+1 if none:
\* where a run of "." stops, and where "$" matches.
LineEnd(s, i) ==
    CHOOSE j \in i..(Len(s) + 1) :
        /\ j > Len(s) \/ IsLineTerminator(s[j])
        /\ \A k \in i..(j - 1) : ~IsLineTerminator(s[k])

\* The first index in lo..hi-1 that holds atom a, 0 if none.
IndexFrom(s, a, lo, hi) ==
    IF \E j \in lo..(hi - 1) : s[j] = a
    THEN CHOOSE j \in lo..(hi - 1) :
            s[j] = a /\ \A k \in lo..(j - 1) : s[k] # a
    ELSE 0

\* s with s[from .. stop-1] replaced by repl.
ReplaceSpan(s, from, stop, repl) ==
    SubSeq(s, 1, from - 1) \o repl \o SubSeq(s, stop, Len(s))

\* Number.prototype.toString of an integer.
RECURSIVE ToDigits(_)
ToDigits(n) ==
    IF n < 0 THEN <<"-">> \o ToDigits(0 - n)
    ELSE IF n < 10 THEN <<Digits[n + 1]>>
    ELSE ToDigits(n \div 10) \o <<Digits[(n % 10) + 1]>>

-----------------------------------------------------------------------------
(* 1. Basic cleaning *)

\* String.prototype.trim
RECURSIVE TrimStart(_)
TrimStart(s) ==
    IF s # <<>> /\ IsWhiteSpace(s[1]) THEN TrimStart(Tail(s)) ELSE s

RECURSIVE TrimEnd(_)
TrimEnd(s) ==
    IF s # <<>> /\ IsWhiteSpace(s[Len(s)])
    THEN TrimEnd(SubSeq(s, 1, Len(s) - 1)) ELSE s

Trim(s) == TrimEnd(TrimStart(s))

\* .replace(/\r\n/g, '\n') on s[lo..hi]: every CR that an LF follows goes.
\* (The matches of a two-character pattern cannot overlap, so each position
\* is decided by itself; the range is halved to keep the evaluation shallow.)
RECURSIVE CrLfToLf(_, _, _)
CrLfToLf(s, lo, hi) ==
    IF lo > hi THEN <<>>
    ELSE IF lo = hi
         THEN IF s[lo] = CR /\ lo < Len(s) /\ s[lo + 1] = LF
              THEN <<>> ELSE <<s[lo]>>
         ELSE CrLfToLf(s, lo, (lo + hi) \div 2)
                \o CrLfToLf(s, ((lo + hi) \div 2) + 1, hi)

\* .replace(/\n/g, '\r\n') on s[lo..hi]: every LF becomes CR LF.
RECURSIVE LfToCrLf(_, _, _)
LfToCrLf(s, lo, hi) ==
    IF lo > hi THEN <<>>
    ELSE IF lo = hi
         THEN IF s[lo] = LF THEN <<CR, LF>> ELSE <<s[lo]>>
         ELSE LfToCrLf(s, lo, (lo + hi) \div 2)
                \o LfToCrLf(s, ((lo + hi) \div 2) + 1, hi)

NormalizeLf(u) == LfToCrLf(u, 1, Len(u))

DropCr(t) == NormalizeLf(CrLfToLf(t, 1, Len(t)))

cleanText(text) == DropCr(Trim(text))

-----------------------------------------------------------------------------
(* 2. Extract all VEVENT blocks *)

\* eventRegex.exec in a loop: from pos, the first BEGIN:VEVENT that has an
\* END:VEVENT after it, up to the nearest such END:VEVENT (non-greedy).
RECURSIVE ExtractFrom(_, _)
BlockTo(s, b, e) ==
    IF b = 0 \/ e = 0 THEN <<>>
    ELSE <<SubSeq(s, b, e)>> \o ExtractFrom(s, e + 1)

BlockFrom(s, b) ==
    BlockTo(s, b,
            IF b = 0 THEN 0 ELSE IndexFrom(s, "END:VEVENT", b + 1, Len(s) + 1))

ExtractFrom(s, pos) ==
    BlockFrom(s, IndexFrom(s, "BEGIN:VEVENT", pos, Len(s) + 1))

\* The fallback: the whole text as the body of one synthetic block.
FoundOrFallback(clean, found) ==
    IF found = <<>>
    THEN << <<"BEGIN:VEVENT", CR, LF>> \o clean \o <<CR, LF, "END:VEVENT">> >>
    ELSE found

ExtractBlocks(clean) == FoundOrFallback(clean, ExtractFrom(clean, 1))

-----------------------------------------------------------------------------
(* Date helpers *)

NaN == 0 - 1    \* what ParseInt gives for "no digits"; its numbers are >= 0

NullDate == [kind |-> "null", t |-> 0]
InvalidDate == [kind |-> "invalid", t |-> 0]    \* a Date whose time is NaN
DateAt(t) == [kind |-> "date", t |-> t]

\* A JS number that may be NaN.
NumNaN == [nan |-> TRUE, n |-> 0]
Num(n) == [nan |-> FALSE, n |-> n]

IsDigitOrT(a) == a \in DigitSet \cup {"T"}

\* String.prototype.substring(a, b), 0-based, end exclusive.
Substring(s, a, b) == SubSeq(s, a + 1, IF b < Len(s) THEN b ELSE Len(s))

\* parseInt of a string of digits and "T": the leading digits, NaN if none.
RECURSIVE ParseIntFrom(_, _, _)
ParseIntFrom(s, i, acc) ==
    IF i > Len(s) \/ s[i] \notin DigitSet THEN acc
    ELSE ParseIntFrom(s, i + 1,
            10 * acc + (CHOOSE k \in 0..9 : Digits[k + 1] = s[i]))

ParseInt(s) ==
    IF s = <<>> \/ s[1] \notin DigitSet THEN NaN ELSE ParseIntFrom(s, 1, 0)

\* cleaned.split('T')[1]: what lies between the first "T" and the next one.
SplitBetween(cleaned, a, b) ==
    SubSeq(cleaned, a + 1, IF b = 0 THEN Len(cleaned) ELSE b - 1)

SplitAfter(cleaned, a) ==
    SplitBetween(cleaned, a, IndexFrom(cleaned, "T", a + 1, Len(cleaned) + 1))

SplitT1(cleaned) ==
    SplitAfter(cleaned, IndexFrom(cleaned, "T", 1, Len(cleaned) + 1))

IsLeap(y) == (y % 4 = 0 /\ y % 100 # 0) \/ y % 400 = 0

\* Days from 1970-01-01 to January 1st of year y.
DaysBeforeYear(y) ==
    365 * (y - 1970) + ((y - 1969) \div 4) - ((y - 1901) \div 100)
        + ((y - 1601) \div 400)

\* m is 0-based, 0..11.
DaysInMonth(y, m) ==
    IF m = 1 THEN (IF IsLeap(y) THEN 29 ELSE 28)
    ELSE IF m \in {3, 5, 8, 10} THEN 30 ELSE 31

RECURSIVE DaysBeforeMonth(_, _)
DaysBeforeMonth(y, m) ==
    IF m = 0 THEN 0 ELSE DaysBeforeMonth(y, m - 1) + DaysInMonth(y, m - 1)

\* new Date(y, m, d, h, min, s).getTime() in seconds: the fields may
\* overflow (month 12 is next January, day 32 runs into the next month), and
\* a year 0..99 means 1900 + year.
NewDate(y, m, d, h, min, s) ==
    LET yy == IF y <= 99 THEN 1900 + y ELSE y
        ym == yy + (m \div 12)
        mn == m % 12
        day == DaysBeforeYear(ym) + DaysBeforeMonth(ym, mn) + (d - 1)
    IN  day * (24 * 60 * 60) + h * (60 * 60) + min * 60 + s

\* The calendar fields of a time, for times from 1970 on.
RECURSIVE YearOf(_, _)
YearOf(days, y) ==
    IF DaysBeforeYear(y + 1) <= days THEN YearOf(days, y + 1) ELSE y

RECURSIVE MonthOf(_, _, _)
MonthOf(y, rest, m) ==
    IF rest >= DaysInMonth(y, m) THEN MonthOf(y, rest - DaysInMonth(y, m), m + 1)
    ELSE m

FieldsOf(y, rest, m, sod) ==
    [year |-> y, month |-> m, date |-> rest - DaysBeforeMonth(y, m) + 1,
     hours |-> sod \div (60 * 60), minutes |-> (sod % (60 * 60)) \div 60,
     seconds |-> sod % 60]

FieldsInYear(y, rest, sod) == FieldsOf(y, rest, MonthOf(y, rest, 0), sod)

FieldsFrom(days, y, sod) == FieldsInYear(y, days - DaysBeforeYear(y), sod)

FieldsOn(days, sod) ==
    FieldsFrom(days, YearOf(days, 1970 + (days \div 366)), sod)

DateFields(t) == FieldsOn(t \div (24 * 60 * 60), t % (24 * 60 * 60))

\* pad: n.toString().padStart(2, '0')
PadStart(digits) == IF Len(digits) < 2 THEN <<"0">> \o digits ELSE digits

Pad(n) == PadStart(ToDigits(n))

\* parseInt(...) || 0
OrZero(n) == IF n = NaN THEN 0 ELSE n

\* The two digits of t at a, 0 without a "T".
ClockField(hasT, t, a) ==
    IF hasT THEN OrZero(ParseInt(Substring(t, a, a + 2))) ELSE 0

DateOf(y, m, d, hasT, t) ==
    IF y = NaN \/ m = NaN \/ d = NaN THEN InvalidDate
    ELSE DateAt(NewDate(y, m - 1, d, ClockField(hasT, t, 0),
                        ClockField(hasT, t, 2), ClockField(hasT, t, 4)))

ParseCleaned(cleaned) ==
    IF Len(cleaned) < 8 THEN NullDate
    ELSE DateOf(ParseInt(Substring(cleaned, 0, 4)),
                ParseInt(Substring(cleaned, 4, 6)),
                ParseInt(Substring(cleaned, 6, 8)),
                IndexFrom(cleaned, "T", 1, Len(cleaned) + 1) # 0,
                SplitT1(cleaned))

parseIcsDate(val) ==
    IF val = <<>> THEN NullDate ELSE ParseCleaned(SelectSeq(val, IsDigitOrT))

FormatFields(f) ==
    ToDigits(f.year) \o Pad(f.month + 1) \o Pad(f.date) \o <<"T">>
        \o Pad(f.hours) \o Pad(f.minutes) \o <<"0", "0">>

formatIcsDate(d) ==
    IF d.kind = "invalid"
    THEN <<"NaN", "NaN", "NaN", "T", "NaN", "NaN", "0", "0">>
    ELSE FormatFields(DateFields(d.t))

\* new Date(originalDate.getTime() + timeOffset + weekOffset)
ShiftDate(d, offset, weekOffset) ==
    IF d.kind = "invalid" \/ offset.nan THEN InvalidDate
    ELSE DateAt(d.t + offset.n + weekOffset)

\* new Date(options.startDate) for the "YYYY-MM-DDTHH:mm" of the date picker,
\* held as <<year, month, day, hours, minutes>>.
TargetStart(startDate) ==
    NewDate(startDate[1], startDate[2] - 1, startDate[3], startDate[4],
            startDate[5], 0)

-----------------------------------------------------------------------------
(* Property lines *)

\* One attempt of /^KEY(?:[:;].*?)?:(.*?)(\r)?$/m at position i (params), or
\* of /^KEY:(.*?)(\r)?$/m (no params).  The value runs to the end of the
\* line; the optional (\r) takes the line's CR when "$" still matches after
\* it, so the match [from, stop) then holds that CR.
MatchSpan(s, i, e, sep) ==
    [hit |-> sep # 0, from |-> i, value |-> SubSeq(s, sep + 1, e - 1),
     stop |-> IF e <= Len(s) /\ s[e] = CR
                 /\ (e = Len(s) \/ IsLineTerminator(s[e + 1]))
              THEN e + 1 ELSE e]

\* The colon before the value: c when the parameter group matched.
Separator(s, i, e, c) ==
    IF c # 0 THEN c
    ELSE IF i + 1 <= e - 1 /\ s[i + 1] = ":" THEN i + 1 ELSE 0

\* (?:[:;].*?)?: the first colon after a leading ":" or ";", 0 if none.
ParamsColon(s, params, i, e) ==
    IF params /\ i + 1 < e /\ s[i + 1] \in {":", ";"}
    THEN IndexFrom(s, ":", i + 2, e) ELSE 0

MatchToLineEnd(s, params, i, e) ==
    MatchSpan(s, i, e, Separator(s, i, e, ParamsColon(s, params, i, e)))

PropertyMatchAt(s, key, params, i) == MatchToLineEnd(s, params, i, LineEnd(s, i))

NoMatch == [hit |-> FALSE, from |-> 0, value |-> <<>>, stop |-> 0]

\* The positions where the regex matches, and the first match in s.
PropertyHit(s, key, params, i) ==
    LineStartAt(s, i) /\ s[i] = key /\ PropertyMatchAt(s, key, params, i).hit

FirstMatch(s, key, params, hits) ==
    IF hits = {} THEN NoMatch
    ELSE PropertyMatchAt(s, key, params,
            CHOOSE i \in hits : \A k \in hits : i <= k)

PropertyMatch(s, key, params) ==
    FirstMatch(s, key, params,
               {i \in 1..Len(s) : PropertyHit(s, key, params, i)})

\* getLineValue: match[1], or null.  "if (value)" is Truthy.
MatchValue(m) == [isNull |-> ~m.hit, val |-> m.value]

getLineValue(block, key) == MatchValue(PropertyMatch(block, key, TRUE))

Truthy(v) == ~v.isNull /\ v.val # <<>>

\* block.replace(/^KEY.../m, "KEY:" + text): the first match, if any.
ReplaceMatch(block, key, m, text) ==
    IF m.hit THEN ReplaceSpan(block, m.from, m.stop, <<key, ":">> \o text)
    ELSE block

ReplaceProperty(block, key, params, text) ==
    ReplaceMatch(block, key, PropertyMatch(block, key, params), text)

-----------------------------------------------------------------------------
(* 3. Determine time offset *)

\* if (val) { parseIcsDate(val) }: the parsed date, null without a value.
ParsedValue(val) == IF Truthy(val) THEN parseIcsDate(val.val) ELSE NullDate

\* if (d) if (!earliestOriginal || d < earliestOriginal): the comparison is
\* false whenever either side is an invalid Date.
Earlier(d, earliest) ==
    IF d.kind # "null"
       /\ (earliest.kind = "null"
           \/ (d.kind = "date" /\ earliest.kind = "date" /\ d.t < earliest.t))
    THEN d ELSE earliest

\* eventBlocks.forEach: the earliest parsed DTSTART, null if there is none.
RECURSIVE EarliestOriginal(_, _, _)
EarliestOriginal(blocks, k, earliest) ==
    IF k > Len(blocks) THEN earliest
    ELSE EarliestOriginal(blocks, k + 1,
            Earlier(ParsedValue(getLineValue(blocks[k], "DTSTART")), earliest))

\* targetStart.getTime() - earliestOriginal.getTime(), 0 with no date found.
OffsetFrom(earliestOriginal, startDate) ==
    IF earliestOriginal.kind = "null" THEN Num(0)
    ELSE IF earliestOriginal.kind = "invalid" THEN NumNaN
    ELSE Num(TargetStart(startDate) - earliestOriginal.t)

TimeOffset(blocks, startDate) ==
    IF startDate = <<>> THEN Num(0)
    ELSE OffsetFrom(EarliestOriginal(blocks, 1, NullDate), startDate)

-----------------------------------------------------------------------------
(* 4. Generate expanded events *)

RepeatCount(opts) ==
    IF opts.isWeekly /\ opts.weeklyCount # <<>> /\ opts.weeklyCount[1] # 0
    THEN opts.weeklyCount[1] ELSE 1

\* i weeks, in seconds
WeekOffset(i) == i * 7 * 24 * 60 * 60

\* 4a, 4b: rewrite the first DTSTART (DTEND) line when its value parses.
RewriteTime(block, key, originalDate, offset, i) ==
    IF originalDate.kind = "null" THEN block
    ELSE ReplaceProperty(block, key, TRUE,
            formatIcsDate(ShiftDate(originalDate, offset, WeekOffset(i))))

AdjustTime(block, key, offset, i) ==
    RewriteTime(block, key, ParsedValue(getLineValue(block, key)), offset, i)

\* `generated-${index}-week-${i}-${Date.now()}@icsmagic`
GeneratedUid(index, i, now) ==
    <<"generated", "-">> \o ToDigits(index) \o <<"-", "week", "-">>
        \o ToDigits(i) \o <<"-">> \o ToDigits(now) \o <<"@icsmagic">>

\* 4c: suffix the UID, or insert a generated one before the first END:VEVENT.
InsertUid(block, end, newUid) ==
    IF end # 0
    THEN ReplaceSpan(block, end, end + 1,
            <<"UID", ":">> \o newUid \o <<CR, LF, "END:VEVENT">>)
    ELSE block \o <<CR, LF, "UID", ":">> \o newUid

\* A variant that also puts the clock reading into the suffix of a UID the
\* block already has.
SuffixOrInsertStamped(block, uidVal, index, i, now) ==
    IF Truthy(uidVal)
    THEN ReplaceProperty(block, "UID", FALSE,
            uidVal.val \o <<"-", "W">> \o ToDigits(i) \o <<"-">>
                \o ToDigits(now))
    ELSE InsertUid(block, IndexFrom(block, "END:VEVENT", 1, Len(block) + 1),
                   GeneratedUid(index, i, now))

SuffixOrInsert(block, uidVal, index, i, now) ==
    IF Truthy(uidVal)
    THEN ReplaceProperty(block, "UID", FALSE,
            uidVal.val \o <<"-", "W">> \o ToDigits(i))
    ELSE InsertUid(block, IndexFrom(block, "END:VEVENT", 1, Len(block) + 1),
                   GeneratedUid(index, i, now))

UniqueUid(block, index, i, now) ==
    SuffixOrInsert(block, getLineValue(block, "UID"), index, i, now)

\* 4d: block.replace(/^RRULE:.*$(\r\n|\r|\n)?/m, ''), the first match only.
RRuleHit(s, i) ==
    LineStartAt(s, i) /\ s[i] = "RRULE" /\ i < Len(s) /\ s[i + 1] = ":"

FirstOr0(hits) ==
    IF hits = {} THEN 0 ELSE CHOOSE i \in hits : \A k \in hits : i <= k

RRuleAt(s) == FirstOr0({i \in 1..Len(s) : RRuleHit(s, i)})

RemoveLine(block, i, e) ==
    ReplaceSpan(block, i,
                IF e > Len(block) THEN e
                ELSE IF block[e] = CR /\ e < Len(block) /\ block[e + 1] = LF
                THEN e + 2 ELSE e + 1,
                <<>>)

RemoveAt(block, i) ==
    IF i = 0 THEN block ELSE RemoveLine(block, i, LineEnd(block, i))

RemoveRRule(block) == RemoveAt(block, RRuleAt(block))

\* The body of the inner loop for one original block: 4a, 4b, then 4c when
\* repeating, then 4d when isWeekly.
Unique(block, index, i, count, now) ==
    IF count > 1 THEN UniqueUid(block, index, i, now) ELSE block

Expanded(block, isWeekly) == IF isWeekly THEN RemoveRRule(block) ELSE block

NewBlock(originalBlock, index, i, offset, count, isWeekly, now) ==
    Expanded(Unique(AdjustTime(AdjustTime(originalBlock, "DTSTART", offset, i),
                               "DTEND", offset, i),
                    index, i, count, now),
             isWeekly)

\* Inner loop: eventBlocks.forEach((originalBlock, index) => ...), index from 0.
RECURSIVE InnerLoop(_, _, _, _, _, _, _)
InnerLoop(blocks, index, i, offset, count, isWeekly, now) ==
    IF index >= Len(blocks) THEN <<>>
    ELSE <<NewBlock(blocks[index + 1], index, i, offset, count, isWeekly, now)>>
            \o InnerLoop(blocks, index + 1, i, offset, count, isWeekly, now)

\* A slip of OuterLoop: the loops nested the other way round, every
\* occurrence of a block before the next block.
RECURSIVE BlockMajorLoop(_, _, _, _, _, _, _)
BlockMajorLoop(blocks, index, i, offset, count, isWeekly, now) ==
    IF index >= Len(blocks) THEN <<>>
    ELSE IF i >= count
         THEN BlockMajorLoop(blocks, index + 1, 0, offset, count, isWeekly, now)
         ELSE <<NewBlock(blocks[index + 1], index, i, offset, count, isWeekly, now)>>
                \o BlockMajorLoop(blocks, index, i + 1, offset, count, isWeekly, now)

OuterLoopBlockMajor(blocks, i, offset, count, isWeekly, now) ==
    BlockMajorLoop(blocks, 0, i, offset, count, isWeekly, now)

\* Outer loop: for (let i = 0; i < repeatCount; i++)
RECURSIVE OuterLoop(_, _, _, _, _, _)
OuterLoop(blocks, i, offset, count, isWeekly, now) ==
    IF i >= count THEN <<>>
    ELSE InnerLoop(blocks, 0, i, offset, count, isWeekly, now)
            \o OuterLoop(blocks, i + 1, offset, count, isWeekly, now)

-----------------------------------------------------------------------------
(* 5. Wrap in calendar, 6. filename *)

Placeholder ==
    <<"E", "x", "p", "o", "r", "t", "e", "d", SP,
      "S", "c", "h", "e", "d", "u", "l", "e">>

\* value || placeholder
ValueOr(v, placeholder) == IF Truthy(v) THEN v.val ELSE placeholder

\* A slip of Summary: the last produced block is read, not the first.
SummaryOfLast(events) ==
    ValueOr(getLineValue(events[Len(events)], "SUMMARY"), Placeholder)

Summary(events) == ValueOr(getLineValue(events[1], "SUMMARY"), Placeholder)

Header ==
    <<"BEGIN:VCALENDAR", CR, LF, "VERSION:2.0", CR, LF,
      "PRODID:-//ICS Magic Converter//Expanded Generator//EN", CR, LF,
      "CALSCALE:GREGORIAN">>

Footer == <<"END:VCALENDAR">>

\* finalEvents.join("\r\n")
RECURSIVE JoinCrLf(_)
JoinCrLf(blocks) ==
    IF blocks = <<>> THEN <<>>
    ELSE IF Len(blocks) = 1 THEN blocks[1]
    ELSE blocks[1] \o <<CR, LF>> \o JoinCrLf(Tail(blocks))

FullContent(events) ==
    Header \o <<CR, LF>> \o JoinCrLf(events) \o <<CR, LF>> \o Footer

SlugMax == 30

IsAlnum(a) ==
    \/ a \in DigitSet
    \/ \E k \in 1..Len(Upper) : a = Upper[k] \/ a = Lower[k]

ToLowerCase(a) ==
    IF \E k \in 1..Len(Upper) : a = Upper[k]
    THEN Lower[CHOOSE k \in 1..Len(Upper) : a = Upper[k]] ELSE a

\* summary.trim().replace(/[^a-z0-9]/gi, '_').toLowerCase().substring(0, 30)
Slug(t) ==
    [k \in 1..Len(t) |-> IF IsAlnum(t[k]) THEN ToLowerCase(t[k]) ELSE "_"]

SafeSummary(summary) == Substring(Slug(Trim(summary)), 0, SlugMax)

Filename(summary, count) ==
    SafeSummary(summary) \o <<"_">> \o ToDigits(count)
        \o <<"w", "e", "e", "k", "s", ".", "i", "c", "s">>

ResultSummary(summary, count) ==
    summary \o <<SP, "(", "x">> \o ToDigits(count)
        \o <<SP, "w", "e", "e", "k", "s", ")">>

NoResult == [icsContent |-> <<>>, filename |-> <<>>, summary |-> <<>>]

\* The message of the TypeError of undefined.match(...)
TypeErrorMsg == "TypeError: Cannot read properties of undefined (reading 'match')"

-----------------------------------------------------------------------------
(* The inputs of the model *)

MaxBlocks == 2    \* VEVENT blocks per input
MaxCount == 2     \* the largest weeklyCount
MaxNow == 2       \* the readings Date.now() can give

\* A timestamp value YYYYMMDDTHHMMSS.
Stamp(y, m, d, h, min, s) ==
    ToDigits(y) \o Pad(m) \o Pad(d) \o <<"T">> \o Pad(h) \o Pad(min) \o Pad(s)

\* Scenario A's event: no UID, no RRULE.
BodyStandup ==
    << <<"DTSTART", ":">> \o Stamp(2024, 1, 1, 9, 0, 0),
       <<"DTEND", ":">> \o Stamp(2024, 1, 1, 10, 0, 0),
       <<"SUMMARY", ":", "S", "t", "a", "n", "d", "u", "p">> >>

\* A later event with parameters, a UTC designator and seconds, a UID and
\* two repeat rules; a week later it is in the next month.
BodyReview ==
    << <<"UID", ":", "a">>,
       <<"DTSTART", ";", "TZID=Asia/Shanghai", ":">>
            \o Stamp(2024, 1, 29, 23, 30, 30) \o <<"Z">>,
       <<"DTEND", ";", "TZID=Asia/Shanghai", ":">>
            \o Stamp(2024, 1, 30, 0, 15, 0) \o <<"Z">>,
       <<"RRULE", ":", "FREQ=WEEKLY">>,
       <<"RRULE", ":", "FREQ=DAILY">> >>

\* The same UID as BodyReview, a date-only start, an end too short to parse,
\* and a summary of more than SlugMax characters with blanks around it that
\* is not the block's first line.
BodyAllDay ==
    << <<"DTSTART", ";", "VALUE=DATE", ":">>
            \o SubSeq(Stamp(2024, 1, 2, 0, 0, 0), 1, 8),
       <<"DTEND", ":", "2", "0", "2", "4">>,
       <<"UID", ":", "a">>,
       <<"SUMMARY", ":", SP, "P", "l", "a", "n", "n", "i", "n", "g", SP, "&",
         SP, "R", "e", "t", "r", "o", SP, "2", "0", "2", "4", SP, "(", "a",
         "l", "l", SP, "h", "a", "n", "d", "s", ")", SP>> >>

\* Free text, a start whose date has six digits before the "T", a UID written
\* with a parameter, one repeat rule, and the tail of a calendar file.
BodyNote ==
    << <<"L", "u", "n", "c", "h">>,
       <<"DTSTART", ":", "2", "0", "2", "4", "0", "1", "T", "0", "9", "0", "0">>,
       <<"UID", ";", "X-SRC=web", ":", "b">>,
       <<"RRULE", ":", "FREQ=WEEKLY">>,
       <<"END:VCALENDAR">> >>

Bodies == {BodyStandup, BodyReview, BodyAllDay, BodyNote}

Styles == {"lf", "mixed"}

\* The terminator after line g of an input written in a style.
Terminator(style, g) ==
    IF style = "lf" THEN <<LF>>
    ELSE IF g % 3 = 0 THEN <<CR, LF>>
    ELSE IF g % 3 = 1 THEN <<CR>>
    ELSE <<LF>>

RECURSIVE JoinLines(_, _, _)
JoinLines(lines, style, g) ==
    IF g > Len(lines) THEN <<>>
    ELSE IF g = Len(lines) THEN lines[g]
    ELSE lines[g] \o Terminator(style, g) \o JoinLines(lines, style, g + 1)

RECURSIVE WrappedLines(_)
WrappedLines(bodies) ==
    IF bodies = <<>> THEN <<>>
    ELSE << <<"BEGIN:VEVENT">> >> \o bodies[1] \o << <<"END:VEVENT">> >>
            \o WrappedLines(Tail(bodies))

\* A pasted document; the mixed style also has blanks around the text.
Document(lines, style) ==
    IF style = "mixed" THEN <<LF, SP>> \o JoinLines(lines, style, 1) \o <<SP, CR, LF>>
    ELSE JoinLines(lines, style, 1)

BodySeqs == UNION {[1..n -> Bodies] : n \in 1..MaxBlocks}

Inputs ==
    {<<>>, <<SP, CR, LF, SP>>}
        \cup {Document(b, st) : b \in Bodies, st \in Styles}
        \cup {Document(WrappedLines(bs), st) : bs \in BodySeqs, st \in Styles}

\* The date picker's value, <<>> when empty.
Anchor == <<2024, 1, 15, 8, 0>>

OptionSet ==
    {[startDate |-> sd, isWeekly |-> TRUE, weeklyCount |-> wc] :
        sd \in {<<>>, Anchor},
        wc \in {<<>>} \cup {<<n>> : n \in (0 - 1)..MaxCount}}
    \cup
    {[startDate |-> sd, isWeekly |-> FALSE, weeklyCount |-> wc] :
        sd \in {<<>>, Anchor}, wc \in {<<>>, <<MaxCount>>}}

-----------------------------------------------------------------------------
(* The state machine *)

\* A promise of generateIcsFromText that no call has made yet.
NoCall == [pc |-> "idle", timer |-> NoResult, result |-> NoResult]

\* useState(5) of weeklyCount.
DefaultWeeklyCount == 5

\* The App as mounted: the useState defaults.
FormDefaults ==
    [inputText |-> <<>>, startDate |-> <<>>, isWeekly |-> FALSE,
     weeklyCount |-> DefaultWeeklyCount]

AppMounted ==
    /\ form = FormDefaults
    /\ status = "IDLE"
    /\ appResult = NoResult
    /\ appErrorMsg = ""
    /\ calls = <<>>

Init ==
    /\ inputText \in Inputs
    /\ options \in OptionSet
    /\ second = NoCall
    /\ cleanings = <<>>
    /\ AppMounted
    /\ pc = "idle"
    /\ eventBlocks = <<>>
    /\ timeOffset = Num(0)
    /\ repeatCount = 1
    /\ finalEvents = <<>>
    /\ timer = NoResult
    /\ result = NoResult
    /\ errorMsg = ""

\* What Date.now() can give during a call.  It is read only when a UID is
\* generated: when repeating a block that has no UID value.
Readings(blocks, count) ==
    IF count > 1
       /\ \E k \in 1..Len(blocks) : ~Truthy(getLineValue(blocks[k], "UID"))
    THEN 1..MaxNow ELSE {1}

\* The promise executor, run synchronously by the call.  With no expanded
\* event, finalEvents[0] is undefined and getLineValue throws: the catch
\* rejects the promise.  Otherwise the 500 ms timer is armed.
Settle(blocks, offset, count, events) ==
    /\ eventBlocks' = blocks
    /\ timeOffset' = offset
    /\ repeatCount' = count
    /\ finalEvents' = events
    /\ IF events = <<>>
       THEN /\ pc' = "rejected"
            /\ errorMsg' = TypeErrorMsg
            /\ timer' = NoResult
       ELSE /\ pc' = "pending"
            /\ errorMsg' = ""
            /\ timer' = [icsContent |-> FullContent(events),
                         filename |-> Filename(Summary(events), count),
                         summary |-> ResultSummary(Summary(events), count)]

Expand(blocks, offset, count) ==
    \E now \in Readings(blocks, count) :
        Settle(blocks, offset, count,
               OuterLoop(blocks, 0, offset, count, options.isWeekly, now))

Executor(blocks, count) ==
    Expand(blocks, TimeOffset(blocks, options.startDate), count)

generateIcsFromText ==
    /\ pc = "idle"
    /\ Executor(ExtractBlocks(cleanText(inputText)), RepeatCount(options))
    /\ UNCHANGED <<inputText, options, result, second, cleanings, appVars>>

\* The setTimeout callback: resolve(...)
Resolve ==
    /\ pc = "pending"
    /\ pc' = "resolved"
    /\ result' = timer
    /\ UNCHANGED <<inputText, options, eventBlocks, timeOffset, repeatCount,
                   finalEvents, timer, errorMsg, second, cleanings, appVars>>

Next == generateIcsFromText \/ Resolve

Spec == Init /\ [][Next]_vars

-----------------------------------------------------------------------------
(* Two calls with the same arguments *)

\* The promise a call leaves behind when its executor has run: rejected by
\* the catch, or pending with the value the timer will resolve it with.
PromiseOf(events, count) ==
    IF events = <<>>
    THEN [pc |-> "rejected", timer |-> NoResult, result |-> NoResult]
    ELSE [pc |-> "pending",
          timer |-> [icsContent |-> FullContent(events),
                     filename |-> Filename(Summary(events), count),
                     summary |-> ResultSummary(Summary(events), count)],
          result |-> NoResult]

\* A call of generateIcsFromText as a function of its arguments and of what
\* Date.now() gives.
CallExpanded(blocks, offset, count, isWeekly, now) ==
    PromiseOf(OuterLoop(blocks, 0, offset, count, isWeekly, now), count)

CallBlocks(blocks, opts, now) ==
    CallExpanded(blocks, TimeOffset(blocks, opts.startDate),
                 RepeatCount(opts), opts.isWeekly, now)

Call(text, opts, now) == CallBlocks(ExtractBlocks(cleanText(text)), opts, now)

\* The documents of the two-call model: blocks without and with a UID.
TwiceInputs ==
    {Document(BodyStandup, "lf")}
        \cup {Document(WrappedLines(bs), "lf") :
                bs \in UNION {[1..n -> {BodyStandup, BodyReview}] :
                                n \in 1..MaxBlocks}}

InitTwice ==
    /\ inputText \in TwiceInputs
    /\ options \in OptionSet
    /\ second = NoCall
    /\ cleanings = <<>>
    /\ AppMounted
    /\ pc = "idle"
    /\ eventBlocks = <<>>
    /\ timeOffset = Num(0)
    /\ repeatCount = 1
    /\ finalEvents = <<>>
    /\ timer = NoResult
    /\ result = NoResult
    /\ errorMsg = ""

\* The same call once more, after the first one has settled; the clock has
\* moved on or not.
generateIcsFromTextAgain ==
    /\ pc \in {"resolved", "rejected"}
    /\ second.pc = "idle"
    /\ \E now \in Readings(eventBlocks, repeatCount) :
          second' = Call(inputText, options, now)
    /\ UNCHANGED <<inputText, options, pc, eventBlocks, timeOffset,
                   repeatCount, finalEvents, timer, result, errorMsg,
                   cleanings, appVars>>

\* The second call's setTimeout callback.
ResolveAgain ==
    /\ second.pc = "pending"
    /\ second' = [pc |-> "resolved", timer |-> second.timer,
                  result |-> second.timer]
    /\ UNCHANGED <<inputText, options, pc, eventBlocks, timeOffset,
                   repeatCount, finalEvents, timer, result, errorMsg,
                   cleanings, appVars>>

NextTwice ==
    generateIcsFromText \/ Resolve \/ generateIcsFromTextAgain \/ ResolveAgain

TwiceSpec == InitTwice /\ [][NextTwice]_vars

-----------------------------------------------------------------------------
(* The cleaning step applied to its own result *)

MaxRaw == 4       \* the length of a raw text
MaxPasses == 2    \* how many times the cleaning is applied

engineVars == <<pc, eventBlocks, timeOffset, repeatCount, finalEvents, timer,
                result, errorMsg, second>>

EngineIdle ==
    /\ second = NoCall
    /\ pc = "idle"
    /\ eventBlocks = <<>>
    /\ timeOffset = Num(0)
    /\ repeatCount = 1
    /\ finalEvents = <<>>
    /\ timer = NoResult
    /\ result = NoResult
    /\ errorMsg = ""

\* Every text of up to MaxRaw characters over a letter, a blank and the two
\* terminator characters.
RawTexts == UNION {[1..n -> {"a", SP, CR, LF}] : n \in 0..MaxRaw}

NoOptions == [startDate |-> <<>>, isWeekly |-> FALSE, weeklyCount |-> <<>>]

InitClean ==
    /\ inputText \in RawTexts
    /\ options = NoOptions
    /\ cleanings = <<>>
    /\ EngineIdle
    /\ AppMounted

\* What the next cleaning is applied to.
Latest(text, done) == IF done = <<>> THEN text ELSE done[Len(done)]

\* const cleanedText = inputText.trim().replace(...).replace(...), applied to
\* the input and then to its own result.
Clean ==
    /\ Len(cleanings) < MaxPasses
    /\ cleanings' = Append(cleanings, cleanText(Latest(inputText, cleanings)))
    /\ UNCHANGED <<inputText, options, engineVars, appVars>>

NextClean == Clean

CleanSpec == InitClean /\ [][NextClean]_vars

-----------------------------------------------------------------------------
(* The App: src/App.tsx around the engine *)

MaxInFlight == 2  \* promises awaited at once, at most

\* What the user pastes, picks and types.
AppTexts ==
    {<<>>, <<SP, LF>>,
     Document(WrappedLines(<<BodyStandup>>), "lf"),
     Document(WrappedLines(<<BodyReview>>), "lf")}

StartDates == {<<>>, Anchor}

\* parseInt(e.target.value) || 0 of what is typed into the count field.
WeeklyCounts == {0 - 1, 0, MaxCount}

\* The options handleGenerate passes: startDate || undefined, and the count
\* only when isWeekly.
EngineOptions(f) ==
    [startDate |-> f.startDate, isWeekly |-> f.isWeekly,
     weeklyCount |-> IF f.isWeekly THEN <<f.weeklyCount>> ELSE <<>>]

\* {status !== ProcessStatus.SUCCESS && (...)}: the input section is rendered.
InputSection == status # "SUCCESS"

\* Button: disabled={disabled || isLoading}, where the App passes only the
\* disabled prop.
ButtonDisabledProp(disabled, isLoading) == disabled

\* Button: disabled={disabled || isLoading}
ButtonDisabled(disabled, isLoading) == disabled \/ isLoading

\* !inputText.trim()
NoText(text) == Trim(text) = <<>>

\* err.message || "Something went wrong processing the file."
MessageOf(message) ==
    IF message = "" THEN "Something went wrong processing the file."
    ELSE message

InitApp ==
    /\ inputText = <<>>
    /\ options = NoOptions
    /\ cleanings = <<>>
    /\ EngineIdle
    /\ AppMounted

\* onChange of the textarea.
setInputText ==
    /\ InputSection
    /\ \E v \in AppTexts : form' = [form EXCEPT !.inputText = v]
    /\ UNCHANGED <<inputText, options, engineVars, cleanings, status,
                   appResult, appErrorMsg, calls>>

\* onChange of the date picker.
setStartDate ==
    /\ InputSection
    /\ \E v \in StartDates : form' = [form EXCEPT !.startDate = v]
    /\ UNCHANGED <<inputText, options, engineVars, cleanings, status,
                   appResult, appErrorMsg, calls>>

\* onClick of the Weekly checkbox: setIsWeekly(!isWeekly)
setIsWeekly ==
    /\ InputSection
    /\ form' = [form EXCEPT !.isWeekly = ~form.isWeekly]
    /\ UNCHANGED <<inputText, options, engineVars, cleanings, status,
                   appResult, appErrorMsg, calls>>

\* onChange of the count field, rendered when isWeekly.
setWeeklyCount ==
    /\ InputSection
    /\ form.isWeekly
    /\ \E v \in WeeklyCounts : form' = [form EXCEPT !.weeklyCount = v]
    /\ UNCHANGED <<inputText, options, engineVars, cleanings, status,
                   appResult, appErrorMsg, calls>>

\* The call of generateIcsFromText inside handleGenerate.
Awaited(text, opts) ==
    \E now \in Readings(ExtractBlocks(cleanText(text)), RepeatCount(opts)) :
        calls' = Append(calls, Call(text, opts, now))

\* A click on Process File: handleGenerate up to its await.
handleGenerate ==
    /\ InputSection
    /\ ~ButtonDisabled(NoText(form.inputText), status = "PROCESSING")
    /\ ~NoText(form.inputText)
    /\ Len(calls) < MaxInFlight
    /\ status' = "PROCESSING"
    /\ appErrorMsg' = ""
    /\ Awaited(form.inputText, EngineOptions(form))
    /\ UNCHANGED <<inputText, options, engineVars, cleanings, form, appResult>>

\* The awaited promises without the k-th.
Others(k) == SubSeq(calls, 1, k - 1) \o SubSeq(calls, k + 1, Len(calls))

\* The timer of a call fires and handleGenerate goes on after its await:
\* setResult(data); setStatus(SUCCESS).
Fulfilled ==
    /\ \E k \in 1..Len(calls) :
          /\ calls[k].pc = "pending"
          /\ appResult' = calls[k].timer
          /\ calls' = Others(k)
    /\ status' = "SUCCESS"
    /\ UNCHANGED <<inputText, options, engineVars, cleanings, form,
                   appErrorMsg>>

\* The catch of handleGenerate, for a call that rejected.
Caught ==
    /\ \E k \in 1..Len(calls) :
          /\ calls[k].pc = "rejected"
          /\ calls' = Others(k)
    /\ status' = "ERROR"
    /\ appErrorMsg' = MessageOf(TypeErrorMsg)
    /\ UNCHANGED <<inputText, options, engineVars, cleanings, form,
                   appResult>>

\* "Process another file" of the ResultCard, rendered when
\* status === SUCCESS && result.
handleReset ==
    /\ status = "SUCCESS"
    /\ appResult # NoResult
    /\ status' = "IDLE"
    /\ appResult' = NoResult
    /\ form' = FormDefaults
    /\ appErrorMsg' = ""
    /\ UNCHANGED <<inputText, options, engineVars, cleanings, calls>>

NextApp ==
    \/ setInputText
    \/ setStartDate
    \/ setIsWeekly
    \/ setWeeklyCount
    \/ handleGenerate
    \/ Fulfilled
    \/ Caught
    \/ handleReset

\* The 500 ms timer of a call fires and the continuation of an await runs.
AppSpec ==
    InitApp /\ [][NextApp]_vars /\ WF_vars(Fulfilled) /\ WF_vars(Caught)

-----------------------------------------------------------------------------
(* Reading a text back: what the properties below observe *)

\* The lines of a text, in order: its maximal runs of atoms that are not
\* line terminators.
RECURSIVE LinesFrom(_, _)
LinesFrom(s, i) ==
    IF i > Len(s) THEN <<>>
    ELSE IF IsLineTerminator(s[i]) THEN LinesFrom(s, i + 1)
    ELSE <<SubSeq(s, i, LineEnd(s, i) - 1)>> \o LinesFrom(s, LineEnd(s, i))

LinesOf(s) == LinesFrom(s, 1)

\* The lines of a block that start with a key.
LinesWithKey(block, key) ==
    LET HasKey(line) == line[1] = key
    IN  SelectSeq(LinesOf(block), HasKey)

\* What follows the first colon of a line.
ValueOf(line) ==
    LET c == IndexFrom(line, ":", 1, Len(line) + 1)
    IN  IF c = 0 THEN <<>> ELSE SubSeq(line, c + 1, Len(line))

CountAtom(s, a) == Cardinality({i \in 1..Len(s) : s[i] = a})

IsPrefix(p, s) == Len(p) <= Len(s) /\ SubSeq(s, 1, Len(p)) = p

IsSuffix(p, s) ==
    Len(p) <= Len(s) /\ SubSeq(s, Len(s) - Len(p) + 1, Len(s)) = p

AllDigits(v) == \A i \in 1..Len(v) : v[i] \in DigitSet

\* A value that starts with a date YYYYMMDD, and the time it denotes, with
\* the time of day read from THHMMSS when that follows the date.
IsStamp(v) == Len(v) >= 8 /\ AllDigits(SubSeq(v, 1, 8))

HasClock(v) == Len(v) >= 15 /\ v[9] = "T" /\ AllDigits(SubSeq(v, 10, 15))

StampTime(v) ==
    NewDate(ParseInt(SubSeq(v, 1, 4)), ParseInt(SubSeq(v, 5, 6)) - 1,
            ParseInt(SubSeq(v, 7, 8)),
            IF HasClock(v) THEN ParseInt(SubSeq(v, 10, 11)) ELSE 0,
            IF HasClock(v) THEN ParseInt(SubSeq(v, 12, 13)) ELSE 0,
            IF HasClock(v) THEN ParseInt(SubSeq(v, 14, 15)) ELSE 0)

\* Whether a block has a line of the key whose (first such) value is a stamp,
\* and that stamp's time.
HasTime(block, key) ==
    LinesWithKey(block, key) # <<>>
        /\ IsStamp(ValueOf(LinesWithKey(block, key)[1]))

TimeOf(block, key) == StampTime(ValueOf(LinesWithKey(block, key)[1]))

Settled == pc \in {"resolved", "rejected"}
Resolved == pc = "resolved"

\* The source block and the occurrence index that output block k (from 0)
\* stands for, with n source blocks.
SourceOf(k) == eventBlocks[(k % Len(eventBlocks)) + 1]
OccurrenceOf(k) == k \div Len(eventBlocks)
OutputIndexes == 0..(Len(finalEvents) - 1)

OneWeek == 7 * 24 * 60 * 60

-----------------------------------------------------------------------------
(* Properties *)

IsBlank(text) == \A i \in 1..Len(text) : IsWhiteSpace(text[i])

\* C1: processing an input whose trimmed text is empty fails: the promise is
\* rejected and no result (icsContent, filename, summary) is produced.
C1_EmptyInputFails ==
    (IsBlank(inputText) /\ pc # "idle")
        => (pc = "rejected" /\ timer = NoResult /\ result = NoResult)

\* C2: for a non-empty input every line terminator of the returned
\* icsContent is CR LF: no LF without a CR before it, no CR without an LF
\* after it.
C2_TerminatorsNormalized ==
    (Resolved /\ ~IsBlank(inputText)) =>
        \A i \in 1..Len(result.icsContent) :
            /\ result.icsContent[i] = LF
                  => (i > 1 /\ result.icsContent[i - 1] = CR)
            /\ result.icsContent[i] = CR
                  => (i < Len(result.icsContent) /\ result.icsContent[i + 1] = LF)

Started == pc \in {"pending", "resolved"}

Min(S) == CHOOSE x \in S : \A y \in S : x <= y

\* The start times the source blocks carry, and the shift the claim names:
\* anchor minus the earliest of them, 0 with no anchor or no start time.
SourceStarts ==
    {TimeOf(eventBlocks[j], "DTSTART") :
        j \in {j \in 1..Len(eventBlocks) : HasTime(eventBlocks[j], "DTSTART")}}

ExpectedOffset ==
    IF options.startDate = <<>> \/ SourceStarts = {} THEN 0
    ELSE TargetStart(options.startDate) - Min(SourceStarts)

\* The time a source time is to become in output block k.
Shifted(k, key) ==
    TimeOf(SourceOf(k), key) + ExpectedOffset + OccurrenceOf(k) * OneWeek

TimeKeys == {"DTSTART", "DTEND"}

\* C3: every parseable start and end time is rewritten to exactly
\* original + offset + i weeks, offset being anchor - earliest start (or 0).
C3_ShiftExact ==
    Started =>
        \A k \in OutputIndexes : \A key \in TimeKeys :
            HasTime(SourceOf(k), key) =>
                /\ HasTime(finalEvents[k + 1], key)
                /\ TimeOf(finalEvents[k + 1], key) = Shifted(k, key)

\* The number of blocks the input holds (every BEGIN:VEVENT of the model's
\* inputs has its END:VEVENT), 1 for the synthetic block, and the occurrence
\* count the options ask for.
ExpectedBlocks ==
    IF CountAtom(inputText, "BEGIN:VEVENT") = 0 THEN 1
    ELSE CountAtom(inputText, "BEGIN:VEVENT")

ExpectedCount ==
    IF options.isWeekly /\ options.weeklyCount # <<>>
       /\ options.weeklyCount[1] >= 1
    THEN options.weeklyCount[1] ELSE 1

\* The lines of a block that the expansion never rewrites.
Untouched(block) ==
    LET Kept(line) == line[1] \notin {"DTSTART", "DTEND", "UID", "RRULE"}
    IN  SelectSeq(LinesOf(block), Kept)

\* Output block k shows its occurrence index: its start, when it is written
\* as a time, is that many weeks after the start of the same block in
\* occurrence 0, and when repeating its
\* UID ends in the index (a UID line without parameters) or is generated
\* from the block's position and the index (no UID line).
ShowsOccurrence(k) ==
    LET src == SourceOf(k)
        out == finalEvents[k + 1]
        uid == LinesWithKey(src, "UID")
        outUid == LinesWithKey(out, "UID")
    IN  /\ (HasTime(src, "DTSTART") /\ HasTime(out, "DTSTART")) =>
              TimeOf(out, "DTSTART")
                = TimeOf(finalEvents[(k % Len(eventBlocks)) + 1], "DTSTART")
                    + OccurrenceOf(k) * OneWeek
        /\ (repeatCount > 1 /\ uid # <<>> /\ uid[1][2] = ":") =>
              /\ outUid # <<>>
              /\ ValueOf(outUid[1])
                    = ValueOf(uid[1]) \o <<"-", "W">> \o ToDigits(OccurrenceOf(k))
        /\ (repeatCount > 1 /\ uid = <<>>) =>
              /\ outUid # <<>>
              /\ IsPrefix(<<"generated", "-">> \o ToDigits(k % Len(eventBlocks))
                            \o <<"-", "week", "-">> \o ToDigits(OccurrenceOf(k))
                            \o <<"-">>,
                          ValueOf(outUid[1]))

\* C4: with n extracted blocks and occurrence count c the output holds
\* exactly c * n event blocks, and output block k comes from source block
\* k mod n at occurrence index k div n (occurrence-major order).
C4_CountAndOrder ==
    Started =>
        /\ Len(eventBlocks) = ExpectedBlocks
        /\ Len(finalEvents) = ExpectedCount * ExpectedBlocks
        /\ CountAtom(timer.icsContent, "BEGIN:VEVENT")
              = ExpectedCount * ExpectedBlocks
        /\ CountAtom(timer.icsContent, "END:VEVENT")
              = ExpectedCount * ExpectedBlocks
        /\ \A k \in OutputIndexes :
              /\ Untouched(finalEvents[k + 1]) = Untouched(SourceOf(k))
              /\ ShowsOccurrence(k)

\* C4's case: two different source blocks, two occurrences, four blocks out.
C4_Witness ==
    /\ Resolved
    /\ ExpectedBlocks = 2
    /\ ExpectedCount = 2
    /\ Len(finalEvents) = 4
    /\ Untouched(eventBlocks[1]) # Untouched(eventBlocks[2])
    /\ HasTime(eventBlocks[1], "DTSTART")

\* C5: with isWeekly true and weeklyCount absent, zero or negative, the call
\* succeeds with one occurrence of every block, as weeklyCount = 1 does.
C5_NonPositiveCountIsOne ==
    (/\ pc # "idle"
     /\ ~IsBlank(inputText)
     /\ options.isWeekly
     /\ options.weeklyCount = <<>> \/ options.weeklyCount[1] <= 0)
    => (Started /\ Len(finalEvents) = ExpectedBlocks)

\* The UID values of the output blocks, in output order: for each block the
\* value of its first UID line (<<>> if it has none).
OutputUids ==
    [k \in 1..Len(finalEvents) |->
        IF LinesWithKey(finalEvents[k], "UID") = <<>> THEN <<>>
        ELSE ValueOf(LinesWithKey(finalEvents[k], "UID")[1])]

\* C6: when more than one occurrence is produced, no two event blocks of the
\* output carry the same UID value.
C6_UidsDistinct ==
    (Resolved /\ ~IsBlank(inputText) /\ repeatCount > 1) =>
        \A j, k \in 1..Len(finalEvents) :
            j # k => OutputUids[j] # OutputUids[k]

\* C7: with isWeekly true no event block of the output holds an RRULE line.
C7_NoRRule ==
    (Resolved /\ ~IsBlank(inputText) /\ options.isWeekly) =>
        \A k \in 1..Len(finalEvents) :
            LinesWithKey(finalEvents[k], "RRULE") = <<>>

\* The envelope of icsContent: BEGIN:VCALENDAR is its first line and occurs
\* once, END:VCALENDAR is its last line, every event block lies between.
Enveloped(ics) ==
    /\ Len(ics) >= 2
    /\ ics[1] = "BEGIN:VCALENDAR" /\ ics[2] = CR
    /\ ics[Len(ics)] = "END:VCALENDAR" /\ ics[Len(ics) - 1] = LF
    /\ CountAtom(ics, "BEGIN:VCALENDAR") = 1
    /\ \A i \in 1..Len(ics) :
          ics[i] \in {"BEGIN:VEVENT", "END:VEVENT"} => (1 < i /\ i < Len(ics))

NoWrapper == ~IsBlank(inputText) /\ CountAtom(inputText, "BEGIN:VCALENDAR") = 0

\* C8: for a non-empty input without a BEGIN:VCALENDAR wrapper,
\* icsContent has exactly one BEGIN:VCALENDAR, its first line, and exactly
\* one END:VCALENDAR, its last line, with the event blocks between them.
C8_OneEnvelope ==
    (Resolved /\ NoWrapper) =>
        /\ Enveloped(result.icsContent)
        /\ CountAtom(result.icsContent, "END:VCALENDAR") = 1

\* The SUMMARY value of a block: that of its first SUMMARY line.
CarriesSummary(block) == LinesWithKey(block, "SUMMARY") # <<>>
SummaryOf(block) == ValueOf(LinesWithKey(block, "SUMMARY")[1])

SummaryShown(base) ==
    /\ IsPrefix(base, result.summary)
    /\ IsPrefix(SafeSummary(base), result.filename)

C10_CountOnlyWhenRepeating ==
    (Resolved /\ ~IsBlank(inputText)) =>
        LET base == IF CarriesSummary(finalEvents[1])
                       /\ SummaryOf(finalEvents[1]) # <<>>
                    THEN SummaryOf(finalEvents[1]) ELSE Placeholder
            count == ToDigits(repeatCount)
            ext == <<".", "i", "c", "s">>
        IN  /\ IsSuffix(ext, result.filename)
            /\ repeatCount > 1 =>
                  /\ result.filename
                        = SafeSummary(base) \o <<"_">> \o count
                            \o <<"w", "e", "e", "k", "s">> \o ext
                  /\ result.summary
                        = base \o <<SP, "(", "x">> \o count
                            \o <<SP, "w", "e", "e", "k", "s", ")">>
            /\ repeatCount = 1 =>
                  /\ result.filename = SafeSummary(base) \o ext
                  /\ result.summary = base

\* The shape FIELD:YYYYMMDDTHHMM00 of a line (its atoms, without terminator).
FloatingShape(line, key) ==
    /\ Len(line) = 17
    /\ line[1] = key /\ line[2] = ":"
    /\ AllDigits(SubSeq(line, 3, 10))
    /\ line[11] = "T"
    /\ AllDigits(SubSeq(line, 12, 15))
    /\ line[16] = "0" /\ line[17] = "0"

\* The engine accepts the value of the block's first line of the key: the
\* value is non-empty and parseIcsDate gives a Date for it.
Accepted(block, key) ==
    ParsedValue(getLineValue(block, key)).kind # "null"

\* C11: every DTSTART or DTEND line the engine rewrites, that is every one
\* whose source value it accepts as parseable, has exactly the shape
\* FIELD:YYYYMMDDTHHMM00 in the output, with no parameters.
C11_RewrittenShape ==
    Started =>
        \A k \in OutputIndexes : \A key \in TimeKeys :
            Accepted(SourceOf(k), key) =>
                /\ LinesWithKey(finalEvents[k + 1], key) # <<>>
                /\ FloatingShape(LinesWithKey(finalEvents[k + 1], key)[1], key)

\* The digits a value has before its first "T", once every character other
\* than a digit or "T" is removed.
DigitsBeforeT(v) ==
    Cardinality({i \in 1..Len(v) :
                    v[i] \in DigitSet /\ \A j \in 1..(i - 1) : v[j] # "T"})

\* A block whose first line of the key has a value of fewer than 8 such
\* digits.
ShortDate(block, key) ==
    LinesWithKey(block, key) # <<>>
        /\ DigitsBeforeT(ValueOf(LinesWithKey(block, key)[1])) < 8

\* C14: parseIcsDate returns null for a value with fewer than 8 digits before
\* any T; the field is skipped: its line is left as it was, and it does not
\* contribute to the earliest start, so the offset is the one computed from
\* the other start times.
C14_ShortDateSkipped ==
    Started =>
        /\ \A k \in OutputIndexes : \A key \in TimeKeys :
              ShortDate(SourceOf(k), key) =>
                  /\ parseIcsDate(ValueOf(LinesWithKey(SourceOf(k), key)[1]))
                        = NullDate
                  /\ LinesWithKey(finalEvents[k + 1], key)[1]
                        = LinesWithKey(SourceOf(k), key)[1]
        /\ timeOffset = Num(ExpectedOffset)

\* Both calls have delivered their result.
BothResolved == pc = "resolved" /\ second.pc = "resolved"

\* The call synthesizes an identifier: it repeats a block without a UID value.
Synthesizes ==
    /\ repeatCount > 1
    /\ \E k \in 1..Len(eventBlocks) :
          ~Truthy(getLineValue(eventBlocks[k], "UID"))

\* Position i of a text is a digit of a generation timestamp: the digits
\* that run up to the "@icsmagic" of a synthesized identifier.
StampDigit(s, i) ==
    /\ s[i] \in DigitSet
    /\ \E e \in (i + 1)..Len(s) :
          s[e] = "@icsmagic" /\ \A j \in i..(e - 1) : s[j] \in DigitSet

\* A text without the generation timestamps of its synthesized identifiers.
RECURSIVE UnstampedIn(_, _, _)
UnstampedIn(s, lo, hi) ==
    IF lo > hi THEN <<>>
    ELSE IF lo = hi THEN (IF StampDigit(s, lo) THEN <<>> ELSE <<s[lo]>>)
    ELSE UnstampedIn(s, lo, (lo + hi) \div 2)
            \o UnstampedIn(s, ((lo + hi) \div 2) + 1, hi)

Unstamped(s) == UnstampedIn(s, 1, Len(s))

\* C12 as stated: two calls with the same input text and the same options
\* return identical icsContent, filename and summary, also when count > 1
\* and identifiers are synthesized for blocks without a UID.
C12_Deterministic == BothResolved => second.result = result

\* C12, amended: two calls with the same arguments fail together or return
\* the same filename and summary and the same icsContent except for the
\* generation timestamps inside synthesized identifiers; the icsContent is
\* identical when no identifier is synthesized.
C12_SameButForStamps ==
    /\ (Settled /\ second.pc # "idle") =>
          ((pc = "rejected") <=> (second.pc = "rejected"))
    /\ BothResolved =>
          /\ second.result.filename = result.filename
          /\ second.result.summary = result.summary
          /\ Unstamped(second.result.icsContent) = Unstamped(result.icsContent)
          /\ ~Synthesizes => second.result.icsContent = result.icsContent

\* Two delivered results of a repeating call on a block without a UID whose
\* texts differ.
C12_Witness ==
    /\ BothResolved
    /\ Synthesizes
    /\ second.result.icsContent # result.icsContent
    /\ second.result.filename = result.filename

\* Every line terminator of a text is CR LF: no CR without an LF after it,
\* no LF without a CR before it.
Canonical(s) ==
    \A i \in 1..Len(s) :
        /\ s[i] = CR => (i < Len(s) /\ s[i + 1] = LF)
        /\ s[i] = LF => (i > 1 /\ s[i - 1] = CR)

\* C13: cleaning a text whose line terminators are all CR LF returns the
\* text byte for byte, and cleaning the result of a cleaning changes nothing.
C13_CanonicalKept ==
    /\ (cleanings # <<>> /\ Canonical(inputText)) => cleanings[1] = inputText
    /\ \A k \in 2..Len(cleanings) : cleanings[k] = cleanings[k - 1]

\* A generation is in flight: handleGenerate is awaiting a promise.
InFlight == calls # <<>>

\* C15: in the App, the stored result is non-null exactly when status is
\* SUCCESS; at most one generation is in flight, and one is in flight exactly
\* while status is PROCESSING; a generation is started only from IDLE or
\* ERROR; and every PROCESSING leads to SUCCESS or ERROR.
C15_AppLifecycle ==
    /\ []((appResult # NoResult) <=> (status = "SUCCESS"))
    /\ [](Len(calls) <= 1)
    /\ [](InFlight <=> (status = "PROCESSING"))
    /\ [][Len(calls') > Len(calls) => status \in {"IDLE", "ERROR"}]_vars
    /\ ((status = "PROCESSING") ~> (status \in {"SUCCESS", "ERROR"}))

\* A result on show: a generation was started on a text that is not blank and
\* has completed.
C15_Witness ==
    /\ status = "SUCCESS"
    /\ appResult # NoResult
    /\ ~InFlight
    /\ ~NoText(form.inputText)

====
